---- MODULE Spec2Model ----
(***************************************************************************)
(* TalentScout hiring assistant: the dialogue / field-completion state     *)
(* machine of src/app.py, the step1 variant of the same handler, and the   *)
(* pure helpers of src/utils.py, src/questions_bank.py and src/llm.py.     *)
(*                                                                         *)
(* A text is a sequence of one-character strings, so that the regular      *)
(* expressions, the splitting, the stripping and the case conversions of   *)
(* the source are computed character by character.                         *)
(***************************************************************************)
EXTENDS Integers, Sequences, FiniteSets, TLC

VARIABLES
    candidate,              \* st.session_state.candidate: the seven profile fields
    messages,               \* st.session_state.messages: the conversation log
    asked_tech_questions,   \* st.session_state.asked_tech_questions: the one-shot flag
    last_input,             \* st.session_state.last_input
    chat_input,             \* the widget state of the text box (st.text_input)
    screen,                 \* what the last script run rendered: "chat", "exit", "exit_only", "error"
    exited,                 \* history: show_exit_screen ran since the session state was last cleared
    uncaught,               \* history: an exception escaped the last script run
    scenario,               \* history: how many turns of the end-to-end scenario were fed, in order
    arg,                    \* input of the pure function under check
    result,                 \* its result
    pc                      \* which script the session runs ("app", "step1"), or the position of a
                            \* pure function's call

vars == <<candidate, messages, asked_tech_questions, last_input, chat_input,
          screen, exited, uncaught, scenario, arg, result, pc>>

\* Python's None. Every value of the model is a sequence of strings, and a character is
\* a string of length one, so no text is equal to None.
None == <<"None">>

-----------------------------------------------------------------------------
(* Characters and string methods of Python, over sequences of characters.  *)

LowerChars == <<"a","b","c","d","e","f","g","h","i","j","k","l","m",
                "n","o","p","q","r","s","t","u","v","w","x","y","z">>
UpperChars == <<"A","B","C","D","E","F","G","H","I","J","K","L","M",
                "N","O","P","Q","R","S","T","U","V","W","X","Y","Z">>
Digits == {"0","1","2","3","4","5","6","7","8","9"}
Letters == {LowerChars[i] : i \in 1..26} \cup {UpperChars[i] : i \in 1..26}
Whitespace == {" ", "\t", "\n"}

IndexIn(seq, c) == CHOOSE i \in 1..Len(seq) : seq[i] = c

\* str.lower / str.upper on one character
ToLower(c) == IF \E i \in 1..26 : UpperChars[i] = c THEN LowerChars[IndexIn(UpperChars, c)] ELSE c
ToUpper(c) == IF \E i \in 1..26 : LowerChars[i] = c THEN UpperChars[IndexIn(LowerChars, c)] ELSE c

\* str.lower()
Lower(s) == IF s = <<>> THEN <<>> ELSE [i \in 1..Len(s) |-> ToLower(s[i])]

\* str.title(): a letter is upper-cased when no letter precedes it, lower-cased otherwise
Title(s) ==
    IF s = <<>> THEN <<>>
    ELSE [i \in 1..Len(s) |->
            IF i = 1 \/ s[i-1] \notin Letters THEN ToUpper(s[i]) ELSE ToLower(s[i])]

\* str.strip(chars): drop the leading and the trailing characters that are in cs
RECURSIVE LStrip(_, _)
LStrip(s, cs) == IF s # <<>> /\ Head(s) \in cs THEN LStrip(Tail(s), cs) ELSE s
RECURSIVE RStrip(_, _)
RStrip(s, cs) ==
    IF s # <<>> /\ s[Len(s)] \in cs THEN RStrip(SubSeq(s, 1, Len(s) - 1), cs) ELSE s
StripChars(s, cs) == RStrip(LStrip(s, cs), cs)
\* str.strip()
Strip(s) == StripChars(s, Whitespace)

\* k in s, for strings
Contains(s, k) ==
    \E i \in 1..(Len(s) - Len(k) + 1) : SubSeq(s, i, i + Len(k) - 1) = k

\* str.replace(a, b) for single characters
ReplaceChar(s, a, b) ==
    IF s = <<>> THEN <<>> ELSE [i \in 1..Len(s) |-> IF s[i] = a THEN b ELSE s[i]]

\* str.split(sep) for a single-character separator: n separators give n+1 parts
RECURSIVE Split(_, _)
Split(s, sep) ==
    IF \A i \in 1..Len(s) : s[i] # sep THEN <<s>>
    ELSE LET k == CHOOSE i \in 1..Len(s) : s[i] = sep /\ \A j \in 1..(i-1) : s[j] # sep
         IN <<SubSeq(s, 1, k - 1)>> \o Split(SubSeq(s, k + 1, Len(s)), sep)

\* the characters of s that are in cs, in order (re.sub of the complement by "")
RECURSIVE Keep(_, _)
Keep(s, cs) ==
    IF s = <<>> THEN <<>>
    ELSE (IF Head(s) \in cs THEN <<Head(s)>> ELSE <<>>) \o Keep(Tail(s), cs)

\* the last index of the longest run of characters of cs that starts at i (i-1: no run)
RECURSIVE RunEnd(_, _, _)
RunEnd(s, i, cs) ==
    IF i <= Len(s) /\ s[i] \in cs THEN RunEnd(s, i + 1, cs) ELSE i - 1

\* the least member of a non-empty set of integers, the greatest one
Min(S) == CHOOSE x \in S : \A y \in S : x <= y
Max(S) == CHOOSE x \in S : \A y \in S : x >= y

-----------------------------------------------------------------------------
(* src/utils.py: the extractors.                                           *)

EmailLocalChars == Letters \cup Digits \cup {".", "_", "%", "+", "-"}
EmailDomainChars == Letters \cup Digits \cup {".", "-"}

\* EMAIL_PATTERN matched at i: the last index of the match, 0 when it does not match.
\* [local]+ is greedy and "@" is no local character, so the local part is the whole
\* run; [domain]+ is greedy and backtracks to the last "." followed by two letters.
EmailMatchEnd(s, i) ==
    LET le == RunEnd(s, i, EmailLocalChars)
    IN  IF le < i \/ le >= Len(s) \/ s[le + 1] # "@" THEN 0
        ELSE LET ds == le + 2
                 de == RunEnd(s, ds, EmailDomainChars)
                 dots == {k \in (ds + 1)..de :
                            s[k] = "." /\ RunEnd(s, k + 1, Letters) >= k + 2}
             IN  IF dots = {} THEN 0 ELSE RunEnd(s, Max(dots) + 1, Letters)

extract_email(text) ==
    LET starts == {i \in 1..Len(text) : EmailMatchEnd(text, i) > 0}
    IN  IF starts = {} THEN None
        ELSE SubSeq(text, Min(starts), EmailMatchEnd(text, Min(starts)))

\* \d{10,} matched at j: the last index of the digit run, 0 when it is shorter than 10
MinPhoneDigits == 10
PhoneDigitsEnd(s, j) ==
    LET e == RunEnd(s, j, Digits)
    IN  IF e - j + 1 >= MinPhoneDigits THEN e ELSE 0

PhoneSeparators == {"-", "."} \cup Whitespace

\* The ways the optional group (?:\+?\d{1,3}[-.\s]?)? can match, in the order the
\* backtracking matcher tries them: <<"+" taken, digits taken, separator taken>>;
\* the group skipped comes last.
PhonePrefixes ==
    << <<1,3,1>>, <<1,3,0>>, <<1,2,1>>, <<1,2,0>>, <<1,1,1>>, <<1,1,0>>,
       <<0,3,1>>, <<0,3,0>>, <<0,2,1>>, <<0,2,0>>, <<0,1,1>>, <<0,1,0>>,
       <<0,0,0>> >>

\* PHONE_PATTERN matched at i with prefix choice p: the last index of the match, or 0
PhoneTry(s, i, p) ==
    LET plusOk == p[1] = 0 \/ (i <= Len(s) /\ s[i] = "+")
        d0 == i + p[1]
        digitsOk == RunEnd(s, d0, Digits) >= d0 + p[2] - 1
        s0 == d0 + p[2]
        sepOk == p[3] = 0 \/ (s0 <= Len(s) /\ s[s0] \in PhoneSeparators)
    IN  IF plusOk /\ digitsOk /\ sepOk THEN PhoneDigitsEnd(s, s0 + p[3]) ELSE 0

PhoneMatchEnd(s, i) ==
    LET ok == {n \in 1..Len(PhonePrefixes) : PhoneTry(s, i, PhonePrefixes[n]) > 0}
    IN  IF ok = {} THEN 0 ELSE PhoneTry(s, i, PhonePrefixes[Min(ok)])

extract_phone(text) ==
    LET starts == {i \in 1..Len(text) : PhoneMatchEnd(text, i) > 0}
    IN  IF starts = {} THEN None
        ELSE LET num == Keep(SubSeq(text, Min(starts), PhoneMatchEnd(text, Min(starts))),
                             Digits \cup {"+"})
             IN  IF Len(num) >= MinPhoneDigits THEN num ELSE None

\* float(): the value of a decimal numeral, written as Python prints it behind the tag
\* "float": the integer digits without leading zeros, ".", the fraction digits without
\* trailing zeros ("0" for none). Two numerals have the same float value exactly when
\* these agree (for numerals of at most 15 significant digits).
ToFloat(num) ==
    LET dot == {k \in 1..Len(num) : num[k] = "."}
        ip == LStrip(IF dot = {} THEN num ELSE SubSeq(num, 1, Min(dot) - 1), {"0"})
        fp == RStrip(IF dot = {} THEN <<>> ELSE SubSeq(num, Min(dot) + 1, Len(num)), {"0"})
    IN  <<"float">> \o (IF ip = <<>> THEN <<"0">> ELSE ip) \o <<".">>
                   \o (IF fp = <<>> THEN <<"0">> ELSE fp)

\* the float 0.0
Zero == <<"float", "0", ".", "0">>

\* EXPERIENCE_PATTERN: group 1 is the first digit run with an optional ".digits";
\* the unit (years|yrs|year) is optional, so the search matches at the first digit
extract_experience(text) ==
    LET starts == {i \in 1..Len(text) : text[i] \in Digits}
    IN  IF starts = {} THEN None
        ELSE LET i == Min(starts)
                 ie == RunEnd(text, i, Digits)
                 fe == IF ie + 2 <= Len(text) /\ text[ie + 1] = "."
                          /\ text[ie + 2] \in Digits
                       THEN RunEnd(text, ie + 2, Digits) ELSE ie
             IN  ToFloat(SubSeq(text, i, fe))

ExitWords ==
    { <<"e","x","i","t">>, <<"q","u","i","t">>, <<"s","t","o","p">>,
      <<"b","y","e">>, <<"g","o","o","d","b","y","e">>, <<"e","n","d">> }

\* detect_exit that looks for a termination word anywhere in the text
detect_exit_anywhere(text) == \E w \in ExitWords : Contains(Lower(text), w)

\* text.strip().lower() in exit_words
detect_exit(text) == Lower(Strip(text)) \in ExitWords

-----------------------------------------------------------------------------
(* src/utils.py: next_missing_field; src/app.py: Candidate.                *)

Fields == <<"full_name", "email", "phone", "experience", "position", "location",
            "tech_stack">>
FieldSet == {Fields[i] : i \in 1..Len(Fields)}

\* Candidate(): every field None
EmptyCandidate == [f \in FieldSet |-> None]

\* Python's truth value of None, of a string and of a float
Truthy(v) == v \notin {None, <<>>, Zero}

\* dict.get(f): None for an absent key
Get(c, f) == IF f \in DOMAIN c THEN c[f] ELSE None

\* next_missing_field(c): the first field of the order with `not c.get(f)`; the name
\* of the field is returned as a text of one piece
next_missing_field(c) ==
    LET missing == {i \in 1..Len(Fields) : ~Truthy(Get(c, Fields[i]))}
    IN  IF missing = {} THEN None ELSE <<Fields[Min(missing)]>>

\* Candidate.is_complete: experience is tested with `is not None`, the rest by truth value
is_complete(c) ==
    /\ Truthy(c.full_name) /\ Truthy(c.email) /\ Truthy(c.phone)
    /\ c.experience # None
    /\ Truthy(c.position) /\ Truthy(c.location) /\ Truthy(c.tech_stack)

-----------------------------------------------------------------------------
(* src/questions_bank.py. A question of the bank is kept as one piece of    *)
(* text: no code looks inside it.                                          *)

BANK ==
    <<
      [key |-> <<"p","y","t","h","o","n">>,
       questions |-> <<
         <<"Explain list vs tuple and when to use each.">>,
         <<"What are list comprehensions and why are they useful?">>,
         <<"How does Python's GIL affect multithreading?">>,
         <<"What is a generator? Show a simple example.">>,
         <<"Explain context managers and the 'with' statement.">> >>],
      [key |-> <<"d","j","a","n","g","o">>,
       questions |-> <<
         <<"What are Django models and migrations?">>,
         <<"Explain Django's MVT architecture.">>,
         <<"How do you optimize ORM queries in Django?">>,
         <<"What is middleware and a use case for custom middleware?">>,
         <<"How would you implement authentication in Django?">> >>],
      [key |-> <<"f","l","a","s","k">>,
       questions |-> <<
         <<"How do blueprints help structure a Flask app?">>,
         <<"What is the difference between app.run debug and production WSGI servers?">>,
         <<"Explain request context and application context in Flask.">>,
         <<"How do you handle configuration and secrets in Flask?">>,
         <<"How would you add authentication/authorization in Flask?">> >>],
      [key |-> <<"s","q","l">>,
       questions |-> <<
         <<"Explain INNER JOIN vs LEFT JOIN with a simple example.">>,
         <<"What are indexes and how can they speed up queries?">>,
         <<"How do you find slow queries and optimize them?">>,
         <<"Explain ACID properties in relational databases.">>,
         <<"What is normalization and when would you denormalize?">> >>],
      [key |-> <<"p","a","n","d","a","s">>,
       questions |-> <<
         <<"How do you handle missing values in pandas DataFrames?">>,
         <<"Explain vectorization and why it's faster than loops in pandas.">>,
         <<"How do you merge/join DataFrames and when to use each?">>,
         <<"What is groupby and an example use case?">>,
         <<"How do you optimize memory usage in pandas?">> >>],
      [key |-> <<"n","u","m","p","y">>,
       questions |-> <<
         <<"Explain broadcasting in NumPy with an example.">>,
         <<"How do you create views vs copies and why does it matter?">>,
         <<"What is vectorization and why is it useful in NumPy?">>,
         <<"How do you compute the dot product and matrix multiplication?">>,
         <<"How to efficiently filter arrays by conditions?">> >>],
      [key |-> <<"p","y","t","o","r","c","h">>,
       questions |-> <<
         <<"Explain autograd and computational graphs in PyTorch.">>,
         <<"What is the difference between Module and Tensor?">>,
         <<"How do you prevent overfitting in a PyTorch model?">>,
         <<"How do you move tensors between CPU and GPU?">>,
         <<"What is DataLoader and why is it useful?">> >>],
      [key |-> <<"t","e","n","s","o","r","f","l","o","w">>,
       questions |-> <<
         <<"What are eager execution and graph execution in TensorFlow?">>,
         <<"How do you save and load a trained model?">>,
         <<"How do you implement early stopping?">>,
         <<"What is tf.data and why is it useful?">>,
         <<"Explain difference between Keras Sequential and Functional API.">> >>],
      [key |-> <<"m","l">>,
       questions |-> <<
         <<"Explain bias-variance tradeoff with an example.">>,
         <<"How do you choose between classification and regression models?">>,
         <<"What is cross-validation and why is it important?">>,
         <<"Explain precision, recall, and F1-score.">>,
         <<"How do you handle class imbalance?">> >>],
      [key |-> <<"j","a","v","a","s","c","r","i","p","t">>,
       questions |-> <<
         <<"Explain var vs let vs const.">>,
         <<"What are closures and a practical example?">>,
         <<"How does the event loop work in JS?">>,
         <<"Explain promise vs async/await.">>,
         <<"What is debounce vs throttle and a use case for each?">> >>],
      [key |-> <<"r","e","a","c","t">>,
       questions |-> <<
         <<"Explain state vs props.">>,
         <<"What are hooks and why use useEffect?">>,
         <<"How do you optimize performance in React apps?">>,
         <<"What is reconciliation and keys in lists?">>,
         <<"How do you manage global state?">> >>]
    >>
GenericQuestions ==
    << <<"Explain a challenging problem you solved with your preferred technology.">>,
       <<"How do you test and debug your code effectively?">>,
       <<"Describe a time you optimized performance in an application.">>,
       <<"How do you ensure code quality and readability?">>,
       <<"What best practices do you follow in your projects?">> >>

\* the default of max_questions
DefaultMaxQuestions == 5

\* seq[:n]
Take(seq, n) == SubSeq(seq, 1, IF n < Len(seq) THEN n ELSE Len(seq))

\* the position in BANK of the first key that occurs in t and is not in seen (0: none):
\* `for key in BANK.keys(): if key in t and key not in seen: ...; break`
FirstBankMatch(t, seen) ==
    LET hits == {n \in 1..Len(BANK) : Contains(t, BANK[n].key) /\ BANK[n].key \notin seen}
    IN  IF hits = {} THEN 0 ELSE Min(hits)

\* the loop over techs, from token i on, with the loop's seen and out
RECURSIVE FallbackLoop(_, _, _, _, _)
FallbackLoop(techs, i, seen, out, max_questions) ==
    IF i > Len(techs) THEN out
    ELSE LET n == FirstBankMatch(techs[i], seen)
             out1 == IF n = 0 THEN out ELSE out \o Take(BANK[n].questions, max_questions)
             seen1 == IF n = 0 THEN seen ELSE seen \cup {BANK[n].key}
         IN  IF Len(out1) >= max_questions THEN out1
             ELSE FallbackLoop(techs, i + 1, seen1, out1, max_questions)

\* generate_fallback_questions without the generic list for a stack that matches nothing
generate_fallback_questions_noGeneric(tech_stack, max_questions) ==
    LET parts == Split(tech_stack, ",")
        techs == [i \in 1..Len(parts) |-> Lower(Strip(parts[i]))]
    IN  Take(FallbackLoop(techs, 1, {}, <<>>, max_questions), max_questions)

generate_fallback_questions(tech_stack, max_questions) ==
    LET parts == Split(tech_stack, ",")
        techs == [i \in 1..Len(parts) |-> Lower(Strip(parts[i]))]
        out == FallbackLoop(techs, 1, {}, <<>>, max_questions)
    IN  Take(IF out = <<>> THEN GenericQuestions ELSE out, max_questions)

-----------------------------------------------------------------------------
(* src/llm.py: chat. The generative service is the environment: one call   *)
(* ends in one of these ways.                                              *)

\* the contents a successful call may carry: empty, blank, and two replies
ReplyTexts ==
    { <<>>, <<" ">>, <<"O","k","."," ">>, <<"1",")"," ","W","h","y","?","\n","-"," ","-">> }

\* no call is made in this run
NotCalled == [kind |-> "not_called", text |-> <<>>]

ServiceOutcomes ==
    {[kind |-> k, text |-> <<>>] :
        k \in {"no_package", "no_api_key", "api_error", "empty_choices", "none_content"}}
    \cup {[kind |-> "content", text |-> t] : t \in ReplyTexts}

\* the two ways a Python call ends
Raise(e) == [raised |-> e, value |-> <<>>]
Return(v) == [raised |-> "", value |-> v]

\* _openai_client: the import fails (wrapped into LLMUnavailable) or the key is missing
openai_client(svc) ==
    IF svc.kind \in {"no_package", "no_api_key"} THEN Raise("LLMUnavailable")
    ELSE Return(<<>>)

\* the body of chat's try block: the client, the request, resp.choices[0].message.content.strip()
ChatBody(svc) ==
    IF openai_client(svc).raised # "" THEN openai_client(svc)
    ELSE CASE svc.kind = "api_error" -> Raise("APIError")
           [] svc.kind = "empty_choices" -> Raise("IndexError")
           [] svc.kind = "none_content" -> Raise("AttributeError")
           [] OTHER -> Return(Strip(svc.text))

\* `except Exception as e: raise LLMUnavailable(str(e))`, r being what the try block did
WrapUnavailable(r) == IF r.raised # "" THEN Raise("LLMUnavailable") ELSE r

chat(svc) == WrapUnavailable(ChatBody(svc))

-----------------------------------------------------------------------------
(* src/app.py: the script that Streamlit runs top to bottom on every user  *)
(* interaction.                                                            *)

\* the vocabularies of the fragment classifier
PositionKeywords ==
    { <<"e","n","g","i","n","e","e","r">>,
      <<"d","e","v","e","l","o","p","e","r">>,
      <<"s","c","i","e","n","t","i","s","t">>,
      <<"a","n","a","l","y","s","t">>,
      <<"i","n","t","e","r","n">>,
      <<"m","a","n","a","g","e","r">> }

TechKeywords ==
    { <<"p","y","t","h","o","n">>,
      <<"j","a","v","a">>,
      <<"s","q","l">>,
      <<"d","j","a","n","g","o">>,
      <<"f","l","a","s","k">>,
      <<"r","e","a","c","t">>,
      <<"n","o","d","e">>,
      <<"p","y","t","o","r","c","h">>,
      <<"t","e","n","s","o","r","f","l","o","w">>,
      <<"p","a","n","d","a","s">>,
      <<"n","u","m","p","y">>,
      <<"m","l">>,
      <<"s","c","i","k","i","t">>,
      <<"m","o","n","g","o","d","b">>,
      <<"m","y","s","q","l">>,
      <<"p","o","s","t","g","r","e","s">> }

LocationKeywords ==
    { <<"n","a","g","p","u","r">>,
      <<"p","u","n","e">>,
      <<"m","u","m","b","a","i">>,
      <<"d","e","l","h","i">>,
      <<"b","a","n","g","a","l","o","r","e">>,
      <<"h","y","d","e","r","a","b","a","d">>,
      <<"r","e","m","o","t","e">>,
      <<"i","n","d","i","a">>,
      <<"u","s","a">>,
      <<"u","k">>,
      <<"l","o","n","d","o","n">>,
      <<"n","e","w"," ","y","o","r","k">> }

AnyIn(keywords, s) == \E k \in keywords : Contains(s, k)

\* [p.strip() for p in user_input.replace("\n", ",").split(",") if p.strip()]
RECURSIVE StrippedNonEmpty(_)
StrippedNonEmpty(parts) ==
    IF parts = <<>> THEN <<>>
    ELSE (IF Strip(Head(parts)) # <<>> THEN <<Strip(Head(parts))>> ELSE <<>>)
         \o StrippedNonEmpty(Tail(parts))
\* Pieces without the split: the whole text is one piece
Pieces_unsplit(user_input) == StrippedNonEmpty(<<user_input>>)
Pieces(user_input) == StrippedNonEmpty(Split(ReplaceChar(user_input, "\n", ","), ","))

\* 'John Doe'
T_JohnDoe == <<"J","o","h","n"," ","D","o","e">>
\* 'john@x.com'
T_Email == <<"j","o","h","n","@","x",".","c","o","m">>
\* '+1 415 555 8899'
T_PhoneSpaced == <<"+","1"," ","4","1","5"," ","5","5","5"," ","8","8","9","9">>
\* '2.5 years'
T_Years == <<"2",".","5"," ","y","e","a","r","s">>
\* 'Data Scientist'
T_DataScientist == <<"D","a","t","a"," ","S","c","i","e","n","t","i","s","t">>
\* 'Bangalore'
T_Bangalore == <<"B","a","n","g","a","l","o","r","e">>
\* 'Python, SQL'
T_PythonSql == <<"P","y","t","h","o","n",","," ","S","Q","L">>
\* 'exit'
T_Exit == <<"e","x","i","t">>
\* '4155558899'
T_PhoneDigits == <<"4","1","5","5","5","5","8","8","9","9">>
\* 'Jane Roe, jane@y.org, 9876543210\n0 years, developer, pune'
T_Batch == <<"J","a","n","e"," ","R","o","e",","," ","j","a","n","e","@","y",".","o","r","g",","," ","9","8","7","6","5","4","3","2","1","0","\n","0"," ","y","e","a","r","s",","," ","d","e","v","e","l","o","p","e","r",","," ","p","u","n","e">>

\* the turns of the end-to-end scenario, in order
ScenarioTurns ==
    <<T_JohnDoe, T_Email, T_PhoneSpaced, T_Years, T_DataScientist, T_Bangalore,
      T_PythonSql, T_Exit>>
OffScript == Len(ScenarioTurns) + 1

\* what the user may type into the text box
Texts == {<<>>, T_PhoneDigits, T_Batch} \cup {ScenarioTurns[i] : i \in 1..Len(ScenarioTurns)}

\* the pieces of the texts, and the extractors and the keyword tests on each of them,
\* computed once
Range(seq) == {seq[i] : i \in 1..Len(seq)}
PiecesOf == [t \in Texts |-> Pieces(t)]
AllPieces == UNION {Range(PiecesOf[t]) : t \in Texts}
PieceFacts ==
    [p \in AllPieces \cup Texts |->
        [email |-> extract_email(p), phone |-> extract_phone(p),
         exp |-> extract_experience(p),
         position |-> AnyIn(PositionKeywords, Lower(p)),
         tech |-> AnyIn(TechKeywords, Lower(p)),
         location |-> AnyIn(LocationKeywords, Lower(p)),
         exit |-> detect_exit(p)]]

\* AccumulatePiece with the guard of the experience branch lost: a number overwrites
\* the experience already set (what enrich_candidate_from_text of step1 does)
AccumulatePiece_overwrites(cand, piece) ==
    LET email == PieceFacts[piece].email
        phone == PieceFacts[piece].phone
        exp == PieceFacts[piece].exp
    IN  IF Truthy(email) /\ ~Truthy(cand.email) THEN [cand EXCEPT !.email = email]
        ELSE IF Truthy(phone) /\ ~Truthy(cand.phone) THEN [cand EXCEPT !.phone = phone]
        ELSE IF exp # None THEN [cand EXCEPT !.experience = exp]
        ELSE cand

\* the body of the loop over the pieces: what one piece does to the candidate
AccumulatePiece(cand, piece) ==
    LET email == PieceFacts[piece].email
        phone == PieceFacts[piece].phone
        exp == PieceFacts[piece].exp
    IN  IF Truthy(email) /\ ~Truthy(cand.email) THEN [cand EXCEPT !.email = email]
        ELSE IF Truthy(phone) /\ ~Truthy(cand.phone) THEN [cand EXCEPT !.phone = phone]
        ELSE IF exp # None /\ cand.experience = None THEN [cand EXCEPT !.experience = exp]
        ELSE IF PieceFacts[piece].position /\ ~Truthy(cand.position)
             THEN [cand EXCEPT !.position = piece]
        ELSE IF PieceFacts[piece].tech /\ ~Truthy(cand.tech_stack)
             THEN [cand EXCEPT !.tech_stack = piece]
        ELSE IF PieceFacts[piece].location /\ ~Truthy(cand.location)
             THEN [cand EXCEPT !.location = piece]
        ELSE IF Contains(piece, <<" ">>) /\ ~Truthy(cand.full_name)
                /\ \A i \in 1..Len(piece) : piece[i] \notin Digits
             THEN [cand EXCEPT !.full_name = Title(piece)]
        ELSE cand

\* the loop over the pieces, in order
RECURSIVE Accumulate(_, _)
Accumulate(cand, pieces) ==
    IF pieces = <<>> THEN cand
    ELSE Accumulate(AccumulatePiece(cand, Head(pieces)), Tail(pieces))

\* the fixed texts of the assistant (typographic quotes and emoji written in ASCII)
Greeting == <<"Hi! I'm TalentScout, your virtual recruiter. Let's start with the basics - what's your **full name**?">>
FieldPrompt ==
    [full_name |-> <<"Great to meet you! What's your **full name**?">>,
     email |-> <<"Thanks! What's the best **email address** to contact you?">>,
     phone |-> <<"Perfect. Could you provide your **phone number** (with country code if possible)?">>,
     experience |-> <<"Nice. How many **years of professional experience** do you have?">>,
     position |-> <<"Got it. What **position or role** are you applying for?">>,
     location |-> <<"Thanks. Where are you currently **located** (city/country)?">>,
     tech_stack |-> <<"Awesome. Please list your **tech stack** - languages, frameworks, databases, and tools.">>]
TechHeader == "Great! Based on your tech stack, here are some questions:"
StaticReply == <<"Thanks! Please answer the questions above. Type **exit** whenever you're done.">>

\* next_recruiter_question with experience tested by its truth value, as
\* next_missing_field tests it: 0.0 counts as not set
next_recruiter_question_byTruth(cand) ==
    IF next_missing_field(cand) = None THEN None
    ELSE FieldPrompt[next_missing_field(cand)[1]]

\* next_recruiter_question: the prompt of the first field that is not set
next_recruiter_question(cand) ==
    IF ~Truthy(cand.full_name) THEN FieldPrompt.full_name
    ELSE IF ~Truthy(cand.email) THEN FieldPrompt.email
    ELSE IF ~Truthy(cand.phone) THEN FieldPrompt.phone
    ELSE IF cand.experience = None THEN FieldPrompt.experience
    ELSE IF ~Truthy(cand.position) THEN FieldPrompt.position
    ELSE IF ~Truthy(cand.location) THEN FieldPrompt.location
    ELSE IF ~Truthy(cand.tech_stack) THEN FieldPrompt.tech_stack
    ELSE None

\* str(i) for the numbers of the question list
Numeral(i) == <<"0","1","2","3","4","5","6","7","8","9">>[i + 1]

\* "\n".join([f"{i+1}. {q}" for i, q in enumerate(qs)])
RECURSIVE NumberedLines(_, _)
NumberedLines(qs, i) ==
    IF i > Len(qs) THEN <<>>
    ELSE (IF i > 1 THEN <<"\n">> ELSE <<>>) \o <<Numeral(i), ".", " ">> \o qs[i]
         \o NumberedLines(qs, i + 1)

\* the tech-question message
TechMessage(qs) == <<TechHeader, "\n">> \o NumberedLines(qs, 1)

\* an entry of the log. The text of a user entry is not kept in the model: the handler
\* never reads it back.
UserText == <<"(the user's text)">>
UserEntry == [role |-> "user", content |-> UserText]
AssistantEntry(text) == [role |-> "assistant", content |-> text]

\* the session state after lines 46-53 of a first run
InitialSession ==
    [candidate |-> EmptyCandidate, messages |-> <<>>, asked_tech_questions |-> FALSE,
     last_input |-> None, keys |-> {"candidate", "messages", "asked_tech_questions", "last_input"}]

\* lines 46-53: every key that is missing gets its initial value
SessionInit(ss) ==
    [k \in DOMAIN ss |->
        IF k = "keys" THEN InitialSession.keys
        ELSE IF k \in ss.keys THEN ss[k] ELSE InitialSession[k]]

\* show_exit_screen that also logs a closing message, as the exit flow of step1 does
show_exit_screen_logsClosing(ss, clicked) ==
    [ss |-> [ss EXCEPT !.messages = Append(@, AssistantEntry(StaticReply))],
     status |-> "stop", raised |-> "", cleared |-> FALSE]

\* show_exit_screen: the Start Over button reports a click only in a run that was
\* started by that click; then every key is deleted and the script reruns. Otherwise
\* st.stop() ends the run. No entry is appended to the log.
show_exit_screen(ss, clicked) ==
    IF clicked = "start_over"
    THEN [ss |-> [ss EXCEPT !.keys = {}], status |-> "rerun", raised |-> "", cleared |-> TRUE]
    ELSE [ss |-> ss, status |-> "stop", raised |-> "", cleared |-> FALSE]

\* lines 225-229
EnsureGreeting(ss) ==
    IF ss.messages = <<>> THEN [ss EXCEPT !.messages = <<AssistantEntry(Greeting)>>] ELSE ss

\* lines 346-352: the reply of the free-form phase, r being what chat(...) did
FreeFormReply(ss, r) ==
    IF r.raised = "LLMUnavailable"
    THEN [ss |-> [ss EXCEPT !.messages = Append(@, AssistantEntry(StaticReply))], raised |-> ""]
    ELSE IF r.raised # "" THEN [ss |-> ss, raised |-> r.raised]
    ELSE [ss |-> [ss EXCEPT !.messages = Append(@, AssistantEntry(r.value))], raised |-> ""]

\* lines 335-343: the tech questions, asked once
AskTechQuestions(ss, qs) ==
    [ss |-> [ss EXCEPT !.messages = Append(@, AssistantEntry(TechMessage(qs))),
                       !.asked_tech_questions = TRUE],
     raised |-> ""]

\* DecideNext without the test of the one-shot flag
DecideNext_ignoresFlag(ss, svc) ==
    IF next_recruiter_question(ss.candidate) # None
    THEN [ss |-> [ss EXCEPT !.messages =
                      Append(@, AssistantEntry(next_recruiter_question(ss.candidate)))],
          raised |-> ""]
    ELSE AskTechQuestions(ss, generate_fallback_questions(ss.candidate.tech_stack,
                                                          DefaultMaxQuestions))

\* lines 328-352: decide the next message, with the candidate after the accumulation
DecideNext(ss, svc) ==
    IF next_recruiter_question(ss.candidate) # None
    THEN [ss |-> [ss EXCEPT !.messages =
                      Append(@, AssistantEntry(next_recruiter_question(ss.candidate)))],
          raised |-> ""]
    ELSE IF ~ss.asked_tech_questions
         THEN AskTechQuestions(ss, generate_fallback_questions(ss.candidate.tech_stack,
                                                               DefaultMaxQuestions))
         ELSE FreeFormReply(ss, chat(svc))

\* line 355, or the exception that ends the run: d is what the decision left
AfterDecide(d) ==
    [ss |-> d.ss, status |-> IF d.raised # "" THEN "raised" ELSE "rerun",
     raised |-> d.raised, cleared |-> FALSE]

\* lines 292-355, with the input recorded: the exit flow, or the accumulation and the
\* next message
ProcessInput(ss1, user_input, clicked, svc) ==
    IF PieceFacts[user_input].exit THEN show_exit_screen(ss1, clicked)
    ELSE AfterDecide(DecideNext(
             [ss1 EXCEPT !.candidate = Accumulate(@, PiecesOf[user_input])], svc))

\* ChatTurn without the comparison with last_input
ChatTurn_everyRun(ss, user_input, clicked, svc) ==
    IF user_input # <<>>
    THEN ProcessInput([ss EXCEPT !.last_input = user_input,
                                 !.messages = Append(@, UserEntry)],
                      user_input, clicked, svc)
    ELSE [ss |-> ss, status |-> "done", raised |-> "", cleared |-> FALSE]

\* lines 288-355: the chat turn handler
ChatTurn(ss, user_input, clicked, svc) ==
    IF user_input # <<>> /\ user_input # ss.last_input
    THEN ProcessInput([ss EXCEPT !.last_input = user_input,
                                 !.messages = Append(@, UserEntry)],
                      user_input, clicked, svc)
    ELSE [ss |-> ss, status |-> "done", raised |-> "", cleared |-> FALSE]

\* what os.getenv gives secure_store: encryption not enabled, enabled without a key,
\* enabled with a key
SaveEnvs == {"off", "on_no_key", "on_with_key"}

\* secure_store: the data as they are, RuntimeError without a key, or the data with
\* email and phone encrypted
secure_store(data, env) ==
    IF env = "off" THEN Return(data)
    ELSE IF env = "on_no_key" THEN Raise("RuntimeError")
    ELSE Return([data EXCEPT !.email = <<"Fernet token of ">> \o @,
                             !.phone = <<"Fernet token of ">> \o @])

\* lines 192-201 in a run started by a click on Save Profile Snapshot, stored being what
\* secure_store did: the exception ends the run before anything is written and before
\* the rest of the page; otherwise the file is written and the run goes on (rest is the
\* rest of the run)
SaveSnapshot(stored, ss, rest) ==
    IF stored.raised # ""
    THEN [ss |-> ss, status |-> "raised", raised |-> stored.raised, cleared |-> FALSE,
          box |-> <<>>, box_rendered |-> FALSE, written |-> FALSE]
    ELSE rest @@ [written |-> TRUE]

\* lines 206-355 of one run, after the session init: the Finish & Exit button, the
\* greeting, the text box and the chat turn handler. box is the widget state of the
\* text box; a run that stops before the text box drops it.
PageBody(ss, clicked, box, svc) ==
    IF clicked = "finish_exit"
    THEN show_exit_screen(ss, clicked) @@ [box |-> <<>>, box_rendered |-> FALSE]
    ELSE ChatTurn(EnsureGreeting(ss), box, clicked, svc)
         @@ [box |-> box, box_rendered |-> TRUE]

\* one run of the script
ScriptPass(ss0, clicked, box, svc) == PageBody(SessionInit(ss0), clicked, box, svc)

\* st.rerun(): the rerun starts without a click, with the widget state the run left
\* (none after Start Over deleted every key)
Rerun(p, svc) ==
    IF p.status = "rerun"
    THEN [ScriptPass(p.ss, "none", IF p.cleared THEN <<>> ELSE p.box, svc)
             EXCEPT !.cleared = p.cleared]
    ELSE p

\* a run and the rerun it asks for
Script(ss0, clicked, box, svc) == Rerun(ScriptPass(ss0, clicked, box, svc), svc)

-----------------------------------------------------------------------------
(* The session of src/app.py as a state machine: one step is one user       *)
(* interaction, that is one run of the script with the reruns it asks for.  *)

\* the number of user turns a session is followed for; a session that has been fed the
\* end-to-end scenario so far is followed to the end of the scenario
MaxTurns == 4
OnScript == scenario \in 1..(Len(ScenarioTurns) - 1)

IsUser(m) == m.role = "user"
IsAssistant(m) == m.role = "assistant"
IsTechMessage(m) == IsAssistant(m) /\ m.content # <<>> /\ Head(m.content) = TechHeader
CountOf(log, P(_)) == Cardinality({i \in 1..Len(log) : P(log[i])})
UserTurns(log) == CountOf(log, IsUser)
TechCount(log) == CountOf(log, IsTechMessage)

CurrentSession ==
    [candidate |-> candidate, messages |-> messages,
     asked_tech_questions |-> asked_tech_questions, last_input |-> last_input,
     keys |-> InitialSession.keys]

\* the state a script run (with its reruns) leaves behind
Leaves(r) ==
    /\ candidate' = r.ss.candidate
    /\ messages' = r.ss.messages
    /\ asked_tech_questions' = r.ss.asked_tech_questions
    /\ last_input' = r.ss.last_input
    /\ chat_input' = (IF r.box_rendered THEN r.box ELSE <<>>)
    /\ screen' = (IF r.status = "stop"
                  THEN (IF r.box_rendered THEN "exit" ELSE "exit_only")
                  ELSE IF r.box_rendered THEN "chat" ELSE "error")
    /\ exited' = (IF r.status = "stop" THEN TRUE ELSE IF r.cleared THEN FALSE ELSE exited)
    /\ uncaught' = (r.status = "raised")

\* the outcomes the service may have in the next run: chat is called only behind
\* `if not st.session_state.asked_tech_questions ... else` (lines 335-349)
OutcomesNow == IF asked_tech_questions THEN ServiceOutcomes ELSE {NotCalled}

\* the first run of a new session: lines 46-53 and the greeting
Init ==
    /\ candidate = EmptyCandidate
    /\ messages = <<AssistantEntry(Greeting)>>
    /\ asked_tech_questions = FALSE
    /\ last_input = None
    /\ chat_input = <<>>
    /\ screen = "chat"
    /\ exited = FALSE
    /\ uncaught = FALSE
    /\ scenario = 0
    /\ arg = <<>>
    /\ result = <<>>
    /\ pc = "app"

\* the user changes the text of the text box and presses Enter
SubmitText(t, svc) ==
    /\ pc = "app"
    /\ screen \in {"chat", "exit"}
    /\ t # chat_input
    /\ UserTurns(messages) < MaxTurns \/ OnScript
    /\ Leaves(Script(CurrentSession, "none", t, svc))
    /\ scenario' = (IF scenario < Len(ScenarioTurns) /\ t = ScenarioTurns[scenario + 1]
                    THEN scenario + 1 ELSE OffScript)
    /\ UNCHANGED <<arg, result, pc>>

\* the user clicks Finish & Exit, which every run renders that gets past the sidebar
ClickFinishExit ==
    /\ pc = "app"
    /\ screen # "error"
    /\ Leaves(Script(CurrentSession, "finish_exit", chat_input, NotCalled))
    /\ scenario' = OffScript
    /\ UNCHANGED <<arg, result, pc>>

\* the user clicks Start Over, which the exit screen renders
ClickStartOver ==
    /\ pc = "app"
    /\ screen \in {"exit", "exit_only"}
    /\ \E svc \in OutcomesNow : Leaves(Script(CurrentSession, "start_over", chat_input, svc))
    /\ scenario' = OffScript
    /\ UNCHANGED <<arg, result, pc>>

\* a run started by a click on Save Profile Snapshot, in the environment env
SaveRun(env) ==
    SaveSnapshot(secure_store(candidate, env), SessionInit(CurrentSession),
                 Script(CurrentSession, "none", chat_input, NotCalled))

\* the user clicks Save Profile Snapshot, which the sidebar renders for a complete
\* profile. Nothing in the repository changes the environment of the process, so a save
\* that follows a save finds what that one found. A save leaves nothing of the
\* environment in the session, so the steps of all sessions are those of the sessions of
\* the three environments together.
ClickSave(env) ==
    /\ pc = "app"
    /\ is_complete(candidate)
    /\ screen = "error" => env = "on_no_key"
    /\ Leaves(SaveRun(env))
    /\ scenario' = OffScript
    /\ UNCHANGED <<arg, result, pc>>

Next ==
    \/ \E t \in Texts, svc \in OutcomesNow : SubmitText(t, svc)
    \/ ClickFinishExit
    \/ ClickStartOver
    \/ \E env \in SaveEnvs : ClickSave(env)

Spec == Init /\ [][Next]_vars

-----------------------------------------------------------------------------
(* Properties of the session of src/app.py.                                *)

Last(log) == log[Len(log)]

\* the session state of a new session, after its first run
SessionIsInitial ==
    /\ candidate = EmptyCandidate
    /\ messages = <<AssistantEntry(Greeting)>>
    /\ asked_tech_questions = FALSE
    /\ last_input = None

\* a step in which Start Over cleared the session state
RestartStep == ClickStartOver /\ SessionIsInitial'

\* a step in which the handler processed a user turn (it records every input it processes)
TurnProcessed == last_input' # last_input /\ last_input' # None
ExitTurnProcessed == TurnProcessed /\ PieceFacts[last_input'].exit
OtherTurnProcessed == TurnProcessed /\ ~PieceFacts[last_input'].exit

\* C1: after the seven turns of the end-to-end scenario, fed to a fresh session in order,
\* all seven fields are set and the log holds exactly one tech-question message; after
\* the eighth turn, "exit", the session has ended, the log ends with the user's entry and
\* one closing assistant message, and the profile and the one-shot flag are as they were.
C1_EndToEndScenario ==
    /\ scenario = Len(ScenarioTurns) - 1 =>
          is_complete(candidate) /\ TechCount(messages) = 1
    /\ scenario = Len(ScenarioTurns) =>
          /\ exited /\ is_complete(candidate) /\ asked_tech_questions
          /\ TechCount(messages) = 1
          /\ Len(messages) >= 2
          /\ IsAssistant(Last(messages)) /\ IsUser(messages[Len(messages) - 1])

\* C2: the tech-question message is in the log at most once, it is appended only as the
\* last entry of a turn that leaves all seven fields set, and the one-shot flag, once
\* true, stays true (until a restart).
C2_TechQuestionsOnce ==
    [][ /\ TechCount(messages') <= 1
        /\ TechCount(messages') > TechCount(messages) =>
              is_complete(candidate') /\ IsTechMessage(Last(messages'))
        /\ asked_tech_questions /\ ~RestartStep => asked_tech_questions' ]_vars

\* C2, witness: the questions were asked, and a later turn was answered by something else
C2_Witness ==
    /\ asked_tech_questions /\ TechCount(messages) = 1
    /\ IsAssistant(Last(messages)) /\ ~IsTechMessage(Last(messages))
    /\ is_complete(candidate)

\* C3: a field that holds a value (experience 0.0 included) is not changed by any later
\* turn, whatever its fragments, until a restart.
C3_FieldsNeverOverwritten ==
    [][ ~RestartStep =>
          \A f \in FieldSet : candidate[f] # None => candidate'[f] = candidate[f] ]_vars

\* C3, witness: experience is 0.0 after a later turn that carried another number
C3_Witness ==
    /\ candidate.experience = Zero
    /\ last_input = T_Years

\* C4: once the exit screen was shown (by an exit turn or by Finish & Exit), no later
\* interaction appends to the log or changes the profile, the flag or last_input,
\* until a restart has cleared the session state.
C4_NoInputAfterExit ==
    [][ exited =>
          \/ RestartStep
          \/ UNCHANGED <<candidate, messages, asked_tech_questions, last_input>> ]_vars

C6_StartOverResets == [][ ClickStartOver => SessionIsInitial' ]_vars

\* C15: the classification of a fragment is exclusive by priority, whatever the profile
\* held before: a turn of one fragment in which extract_email finds a value assigns no
\* field but email, one in which extract_phone finds a value assigns neither experience
\* nor a field of lower priority, and one in which extract_experience finds a value
\* assigns none of position, tech_stack, location and full_name.
C15_FragmentClassExclusive ==
    [][ OtherTurnProcessed /\ Len(PiecesOf[last_input']) = 1 =>
          LET f == PieceFacts[PiecesOf[last_input'][1]]
              kept(S) == \A g \in S : candidate'[g] = candidate[g]
          IN  /\ f.email # None => kept(FieldSet \ {"email"})
              /\ f.phone # None => kept(FieldSet \ {"email", "phone"})
              /\ f.exp # None => kept({"position", "tech_stack", "location", "full_name"}) ]_vars

\* C16: a processed turn that is not an exit and leaves the profile incomplete appends
\* the user's entry and one assistant message, the fixed prompt of the first field of the
\* order that is not set (experience 0.0 is set); the one-shot flag does not change.
C16_IncompleteAsksFirstUnset ==
    [][ OtherTurnProcessed /\ ~is_complete(candidate') =>
          LET unset == {i \in 1..Len(Fields) :
                          IF Fields[i] = "experience" THEN candidate'.experience = None
                          ELSE candidate'[Fields[i]] \in {None, <<>>}}
          IN  /\ messages' = messages \o
                     <<UserEntry, AssistantEntry(FieldPrompt[Fields[Min(unset)]])>>
              /\ asked_tech_questions' = asked_tech_questions ]_vars

\* C16, witness: with experience 0.0 and no tech stack, the prompt of the tech stack
\* was appended
C16_Witness ==
    /\ candidate.experience = Zero /\ candidate.tech_stack = None
    /\ last_input = T_Batch
    /\ Last(messages) = AssistantEntry(FieldPrompt.tech_stack)

\* C20: the stored tech_stack is one fragment of one turn: it holds no comma and no
\* newline, it is a fragment of the turn that set it, one with a technology keyword, and
\* the tech-question message is made of the questions of that fragment.
C20_TechStackIsOneFragment ==
    [][ /\ candidate'.tech_stack # None =>
              \A i \in 1..Len(candidate'.tech_stack) :
                  candidate'.tech_stack[i] \notin {",", "\n"}
        /\ candidate.tech_stack = None /\ candidate'.tech_stack # None =>
              \E n \in 1..Len(PiecesOf[last_input']) :
                  /\ PiecesOf[last_input'][n] = candidate'.tech_stack
                  /\ PieceFacts[PiecesOf[last_input'][n]].tech
        /\ TechCount(messages') > TechCount(messages) =>
              Last(messages') = AssistantEntry(TechMessage(
                  generate_fallback_questions(candidate'.tech_stack, DefaultMaxQuestions)))
      ]_vars

\* C20, witness: the turn "Python, SQL" stored "Python" and the questions were asked
C20_Witness ==
    /\ last_input = T_PythonSql
    /\ candidate.tech_stack = <<"P","y","t","h","o","n">>
    /\ IsTechMessage(Last(messages))

\* C19: an input is processed at most once: one interaction appends at most one user
\* entry, a run of the script with the text the last interaction left in the text box
\* changes nothing and asks for no rerun, and a submission of the text that was
\* processed last changes neither the profile, the log, the flag nor last_input.
C19_InputProcessedOnce ==
    [][ /\ UserTurns(messages') <= UserTurns(messages) + 1
        /\ ScriptPass(CurrentSession', "none", chat_input', NotCalled).ss = CurrentSession'
        /\ ScriptPass(CurrentSession', "none", chat_input', NotCalled).status = "done"
        /\ chat_input' # chat_input /\ chat_input' = last_input =>
              UNCHANGED <<candidate, messages, asked_tech_questions, last_input>> ]_vars

\* C19, witness: "John Doe" was processed, the exit screen dropped the text box, and
\* "John Doe" was submitted a second time: the log still holds one user entry
C19_Witness ==
    /\ exited /\ screen = "chat"
    /\ chat_input = T_JohnDoe /\ last_input = T_JohnDoe
    /\ UserTurns(messages) = 1

\* C14: a click on Save Profile Snapshot with encryption enabled and no key raises an
\* error, writes no snapshot file, leaves the profile, the log and the one-shot flag as
\* they were, and leaves a page on which the next user turn can be submitted
C14_SaveWithoutKeyKeepsSessionUsable ==
    [][ ClickSave("on_no_key") =>
          /\ uncaught'
          /\ ~SaveRun("on_no_key").written
          /\ UNCHANGED <<candidate, messages, asked_tech_questions>>
          /\ screen' \in {"chat", "exit"} ]_vars

-----------------------------------------------------------------------------
(* step1 app.py: the earlier version of the script, which calls the         *)
(* generative service in every turn. Its utils and questions_bank are the  *)
(* modules of src/.                                                        *)

\* the vocabularies of enrich_candidate_from_text ("tech stack" and "location" are the
\* two literal tests that come with the keyword lists)
Step1PositionKeywords ==
    { <<"e","n","g","i","n","e","e","r">>,
      <<"d","e","v","e","l","o","p","e","r">>,
      <<"s","c","i","e","n","t","i","s","t">>,
      <<"a","n","a","l","y","s","t">>,
      <<"m","a","n","a","g","e","r">>,
      <<"i","n","t","e","r","n">> }

Step1TechKeywords ==
    { <<"t","e","c","h"," ","s","t","a","c","k">>,
      <<"p","y","t","h","o","n">>,
      <<"j","a","v","a">>,
      <<"s","q","l">>,
      <<"d","j","a","n","g","o">>,
      <<"f","l","a","s","k">>,
      <<"r","e","a","c","t">>,
      <<"n","o","d","e">>,
      <<"p","y","t","o","r","c","h">>,
      <<"t","e","n","s","o","r","f","l","o","w">>,
      <<"p","a","n","d","a","s">>,
      <<"n","u","m","p","y">>,
      <<"m","l">>,
      <<"m","a","c","h","i","n","e"," ","l","e","a","r","n","i","n","g">> }

Step1LocationKeywords ==
    { <<"l","o","c","a","t","i","o","n">>,
      <<"n","a","g","p","u","r">>,
      <<"p","u","n","e">>,
      <<"m","u","m","b","a","i">>,
      <<"d","e","l","h","i">>,
      <<"b","a","n","g","a","l","o","r","e">>,
      <<"b","e","n","g","a","l","u","r","u">>,
      <<"h","y","d","e","r","a","b","a","d">>,
      <<"r","e","m","o","t","e">>,
      <<"i","n","d","i","a">>,
      <<"u","s","a">>,
      <<"u","k">>,
      <<"e","u","r","o","p","e">> }

\* the keyword tests of enrich_candidate_from_text on each text, computed once
Step1Facts ==
    [t \in Texts |->
        [position |-> AnyIn(Step1PositionKeywords, Lower(t)),
         tech |-> AnyIn(Step1TechKeywords, Lower(t)),
         location |-> AnyIn(Step1LocationKeywords, Lower(t)),
         spaced |-> Contains(Strip(t), <<" ">>)]]

\* the body of enrich_candidate_from_text, f and g being what the extractors and the
\* keyword tests found in the text: the three extracted values overwrite, the rest
\* fills what is not set
Enrich(c, text, f, g) ==
    [full_name |-> IF g.spaced /\ ~Truthy(c.full_name) /\ ~Truthy(f.email) /\ ~Truthy(f.phone)
                   THEN Title(Strip(text)) ELSE c.full_name,
     email |-> IF Truthy(f.email) THEN f.email ELSE c.email,
     phone |-> IF Truthy(f.phone) THEN f.phone ELSE c.phone,
     experience |-> IF f.exp # None THEN f.exp ELSE c.experience,
     position |-> IF g.position /\ ~Truthy(c.position) THEN text ELSE c.position,
     location |-> IF g.location /\ ~Truthy(c.location) THEN text ELSE c.location,
     tech_stack |-> IF g.tech /\ ~Truthy(c.tech_stack) THEN text ELSE c.tech_stack]

enrich_candidate_from_text(c, text) == Enrich(c, text, PieceFacts[text], Step1Facts[text])

\* q.split(sep, 1)[-1] for a separator that occurs in q
AfterFirst(q, sep) ==
    LET k == Min({i \in 1..(Len(q) - Len(sep) + 1) : SubSeq(q, i, i + Len(sep) - 1) = sep})
    IN  SubSeq(q, k + Len(sep), Len(q))

\* q.split(sep, 1)[-1] if sep in q and q[0].isdigit() else q
DropMarker(q, sep) ==
    IF Contains(q, sep) /\ q[1] \in Digits THEN AfterFirst(q, sep) ELSE q

\* one line of the reply: the leading "1) " or "1. " removed, then stripped
ParseLine(ln) == Strip(DropMarker(DropMarker(ln, <<")", " ">>), <<".", " ">>))

\* the lines that are not blank, each stripped of spaces and hyphens, then parsed
RECURSIVE ParseLines(_)
ParseLines(lines) ==
    IF lines = <<>> THEN <<>>
    ELSE (IF Strip(Head(lines)) # <<>>
          THEN <<ParseLine(StripChars(Head(lines), {" ", "-"}))>> ELSE <<>>)
         \o ParseLines(Tail(lines))

\* the try block of generate_tech_questions, r being what chat(...) did
TechQuestionsTry(r) ==
    IF r.raised # "" THEN r
    ELSE IF ParseLines(Split(Strip(r.value), "\n")) = <<>> THEN Raise("ValueError")
    ELSE Return(Take(ParseLines(Split(Strip(r.value), "\n")), 5))

\* `except Exception: return generate_fallback_questions(tech_stack, max_questions=5)`
TechQuestionsOr(r, tech_stack) ==
    IF r.raised # "" THEN generate_fallback_questions(tech_stack, 5) ELSE r.value

generate_tech_questions(tech_stack, svc) == TechQuestionsOr(TechQuestionsTry(chat(svc)), tech_stack)

\* the fixed texts of step1
Step1Greeting == <<"Hello! I'm TalentScout, your AI hiring assistant. I'll collect your basic details (name, contact, experience, position, location, tech stack) and then ask a few tailored technical questions. You can type 'exit' anytime to end.">>
Step1Prompt ==
    [full_name |-> <<"Could you share your full name?">>,
     email |-> <<"Please provide your email address.">>,
     phone |-> <<"What is your phone number (with country code if applicable)?">>,
     experience |-> <<"How many years of professional experience do you have? (e.g., 2 or 2.5)">>,
     position |-> <<"What role are you targeting? (e.g., Data Scientist, Backend Engineer)">>,
     location |-> <<"Where are you currently located (city, country)?">>,
     tech_stack |-> <<"Please list your tech stack (languages, frameworks, databases, tools).">>]
Step1AllSet == <<"Thanks! I have your details. Would you like to answer a few technical questions next?">>
Step1TechHeader == "Great. Based on your tech stack, please answer these:"

\* sentiment_tag: the three tags of the score, or nothing when the analyser fails
\* (emoji written in ASCII)
Moods == {":)", ":(", ":|", ""}

\* the closing message of the exit flow
Step1Closing(mood) ==
    <<"Thank you for your time! ", mood,
      " We'll review your details and get back to you with next steps.">>

\* ask_for_next_field: the prompt of the field next_missing_field names
ask_for_next_field(c) ==
    IF next_missing_field(c) = None THEN Step1AllSet
    ELSE Step1Prompt[next_missing_field(c)[1]]

Step1TechMessage(qs) == <<Step1TechHeader, "\n">> \o NumberedLines(qs, 1)

\* lines 334-346: the reply, r being what chat(...) did; an exception other than
\* LLMUnavailable is not caught
Step1Reply(ss, r) ==
    IF r.raised = "LLMUnavailable" THEN Return(ask_for_next_field(ss.candidate))
    ELSE r

\* lines 348-356: the tech questions, once, or else the reply
Step1Answer(ss, reply, svc2) ==
    IF reply.raised # "" THEN [ss |-> ss, status |-> "raised", raised |-> reply.raised]
    ELSE IF Truthy(ss.candidate.tech_stack) /\ ~ss.asked_tech_questions
    THEN [ss |-> [ss EXCEPT !.messages = Append(@, AssistantEntry(Step1TechMessage(
                                   generate_tech_questions(ss.candidate.tech_stack, svc2)))),
                            !.asked_tech_questions = TRUE],
          status |-> "rerun", raised |-> ""]
    ELSE [ss |-> [ss EXCEPT !.messages = Append(@, AssistantEntry(reply.value))],
          status |-> "rerun", raised |-> ""]

\* lines 331-356, with the candidate after the extraction
Step1Respond(ss, svc1, svc2) == Step1Answer(ss, Step1Reply(ss, chat(svc1)), svc2)

\* lines 323-356, with the input recorded: the exit flow appends the closing message
\* and stops the run
Step1Process(ss1, user_input, svc1, svc2, mood) ==
    IF PieceFacts[user_input].exit
    THEN [ss |-> [ss1 EXCEPT !.messages = Append(@, AssistantEntry(Step1Closing(mood)))],
          status |-> "stop", raised |-> ""]
    ELSE Step1Respond([ss1 EXCEPT !.candidate = enrich_candidate_from_text(@, user_input)],
                      svc1, svc2)

\* lines 312-356: the chat turn handler of step1
Step1ChatTurn(ss, user_input, svc1, svc2, mood) ==
    IF user_input # <<>> /\ user_input # ss.last_input
    THEN Step1Process([ss EXCEPT !.last_input = user_input,
                                 !.messages = Append(@, UserEntry)],
                      user_input, svc1, svc2, mood)
    ELSE [ss |-> ss, status |-> "done", raised |-> ""]

\* ensure_greeting of step1
Step1EnsureGreeting(ss) ==
    IF ss.messages = <<>> THEN [ss EXCEPT !.messages = <<AssistantEntry(Step1Greeting)>>]
    ELSE ss

\* one run of the script: no control of step1 deletes a key, so lines 54-63 leave the
\* session state as it is
Step1ScriptPass(ss, box, svc1, svc2, mood) ==
    Step1ChatTurn(Step1EnsureGreeting(ss), box, svc1, svc2, mood)

\* st.rerun(): the rerun finds the same text in the text box
Step1Rerun(p, box) ==
    IF p.status = "rerun" THEN Step1ScriptPass(p.ss, box, NotCalled, NotCalled, "") ELSE p

\* a run and the rerun it asks for
Step1Script(ss, box, svc1, svc2, mood) ==
    Step1Rerun(Step1ScriptPass(ss, box, svc1, svc2, mood), box)

\* the number of user turns a step1 session is followed for
MaxStep1Turns == 2

\* the state a script run of step1 (with its rerun) leaves behind; every run renders
\* the text box
Step1Leaves(r, box) ==
    /\ candidate' = r.ss.candidate
    /\ messages' = r.ss.messages
    /\ asked_tech_questions' = r.ss.asked_tech_questions
    /\ last_input' = r.ss.last_input
    /\ chat_input' = box
    /\ screen' = "chat"
    /\ exited' = (exited \/ r.status = "stop")
    /\ uncaught' = (r.status = "raised")

\* the first run of a new step1 session
InitStep1 ==
    /\ candidate = EmptyCandidate
    /\ messages = <<AssistantEntry(Step1Greeting)>>
    /\ asked_tech_questions = FALSE
    /\ last_input = None
    /\ chat_input = <<>>
    /\ screen = "chat"
    /\ exited = FALSE
    /\ uncaught = FALSE
    /\ scenario = OffScript
    /\ arg = <<>>
    /\ result = <<>>
    /\ pc = "step1"

\* the outcomes of the second call of a turn, made by generate_tech_questions when the
\* text (or an earlier one) gave a tech stack and the questions were not asked yet
Step1SecondOutcomes(t) ==
    IF ~asked_tech_questions /\ ~PieceFacts[t].exit
       /\ Truthy(enrich_candidate_from_text(candidate, t).tech_stack)
    THEN ServiceOutcomes ELSE {NotCalled}

\* the outcomes of the first call of a turn, made for the reply of every turn that is
\* not an exit
Step1FirstOutcomes(t) ==
    IF PieceFacts[t].exit \/ t = <<>> \/ t = last_input THEN {NotCalled} ELSE ServiceOutcomes

\* sentiment_tag is used by the exit flow only
Step1Moods(t) == IF PieceFacts[t].exit THEN Moods ELSE {""}

\* the user changes the text of the text box of step1 and presses Enter
Step1SubmitText(t, svc1, svc2, mood) ==
    /\ pc = "step1"
    /\ t # chat_input
    /\ UserTurns(messages) < MaxStep1Turns
    /\ Step1Leaves(Step1Script(CurrentSession, t, svc1, svc2, mood), t)
    /\ UNCHANGED <<scenario, arg, result, pc>>

NextStep1 ==
    \E t \in Texts :
        \E svc1 \in Step1FirstOutcomes(t), svc2 \in Step1SecondOutcomes(t), mood \in Step1Moods(t) :
            Step1SubmitText(t, svc1, svc2, mood)

SpecStep1 == InitStep1 /\ [][NextStep1]_vars

\* the two scripts side by side: a session runs one of them
InitHandlers == Init \/ InitStep1
NextHandlers == Next \/ NextStep1
SpecHandlers == InitHandlers /\ [][NextHandlers]_vars

-----------------------------------------------------------------------------
(* Properties of the two handlers and the generative service.              *)

\* the ways the service call fails: no package, no credential, an error of the request,
\* an empty choice list, no content, an empty content
ServiceFailures == {svc \in ServiceOutcomes : svc.kind # "content" \/ svc.text = <<>>}

\* what the main handler appends when the service is unavailable
FallbackOfApp == AssistantEntry(StaticReply)

\* what the step1 handler appends when the service is unavailable, in a turn that
\* starts with the flag `asked` and leaves the candidate c
FallbackOfStep1(asked, c) ==
    IF Truthy(c.tech_stack) /\ ~asked
    THEN AssistantEntry(Step1TechMessage(generate_fallback_questions(c.tech_stack, 5)))
    ELSE AssistantEntry(ask_for_next_field(c))

\* C7: in both handlers, a processed turn that is not an exit appends the user's entry
\* and exactly one assistant message and no exception escapes the run; and when the
\* service call of the turn fails (no package, no credential, an error, an empty choice
\* list, no content, an empty content), that message is the deterministic fallback.
C7_ServiceFailureFallsBack ==
    [][ /\ OtherTurnProcessed =>
              /\ ~uncaught'
              /\ Len(messages') = Len(messages) + 2
              /\ SubSeq(messages', 1, Len(messages)) = messages
              /\ IsUser(messages'[Len(messages) + 1])
              /\ IsAssistant(Last(messages'))
        /\ \A svc \in ServiceFailures :
              /\ ( /\ pc = "app" /\ asked_tech_questions /\ OtherTurnProcessed
                   /\ SubmitText(chat_input', svc) )
                 => Last(messages') = FallbackOfApp
              /\ ( /\ pc = "step1" /\ OtherTurnProcessed
                   /\ Step1SubmitText(chat_input', svc, svc, "") )
                 => Last(messages') = FallbackOfStep1(asked_tech_questions, candidate') ]_vars

\* C17: in the step1 handler the tech-question message is in the log at most once, and
\* it is appended only in a turn after which all seven fields are set.
C17_Step1TechQuestionsOnce ==
    [][ LET isTech(m) == IsAssistant(m) /\ m.content # <<>>
                         /\ Head(m.content) = Step1TechHeader
            count(log) == Cardinality({i \in 1..Len(log) : isTech(log[i])})
        IN  /\ count(messages') <= 1
            /\ count(messages') > count(messages) => is_complete(candidate') ]_vars

-----------------------------------------------------------------------------
(* The pure helpers, each applied to the inputs of a bounded set.          *)

\* a key that a profile dictionary does not have
Absent == <<"Absent">>

\* the values a profile dictionary may give a field: absent, None, empty, set
\* (0.0 and 2.5 for experience)
DictValues(f) ==
    IF f = "experience" THEN {Absent, None, Zero, ToFloat(<<"2", ".", "5">>)}
    ELSE {Absent, None, <<>>, <<"x">>}

\* the dictionary with the keys that are not absent
DictOf(c0) == [f \in {g \in FieldSet : c0[g] # Absent} |-> c0[f]]

ProfileDicts ==
    {DictOf(c0) : c0 \in {c \in [FieldSet -> {Absent, None, <<>>, <<"x">>, Zero,
                                               ToFloat(<<"2", ".", "5">>)}] :
                             \A f \in FieldSet : c[f] \in DictValues(f)}}

\* Candidate(**c): a key the dictionary does not have keeps its default, None
AsCandidate(c) == [f \in FieldSet |-> Get(c, f)]

InitCompletion ==
    /\ pc = "next_missing_field"
    /\ arg \in ProfileDicts
    /\ result = <<>>
    /\ candidate = EmptyCandidate /\ messages = <<>> /\ asked_tech_questions = FALSE
    /\ last_input = None /\ chat_input = <<>> /\ screen = "none"
    /\ exited = FALSE /\ uncaught = FALSE /\ scenario = OffScript

CallNextMissingField ==
    /\ pc = "next_missing_field"
    /\ result' = next_missing_field(arg)
    /\ pc' = "returned"
    /\ UNCHANGED <<candidate, messages, asked_tech_questions, last_input, chat_input,
                   screen, exited, uncaught, scenario, arg>>

NextCompletion == CallNextMissingField

SpecCompletion == InitCompletion /\ [][NextCompletion]_vars

\* the first field of the order that is empty or absent, experience being present
\* when it is 0.0
FirstEmptyField(c) ==
    LET empty == {i \in 1..Len(Fields) :
                    IF Fields[i] = "experience" THEN Get(c, Fields[i]) = None
                    ELSE Get(c, Fields[i]) \in {None, <<>>}}
    IN  IF empty = {} THEN None ELSE <<Fields[Min(empty)]>>

\* C8: next_missing_field returns the first field of the order that is empty or absent
\* (experience counts as present when it is 0), and None exactly when is_complete holds.
C8_NextMissingField ==
    pc = "returned" =>
        /\ result = FirstEmptyField(arg)
        /\ (result = None) <=> is_complete(AsCandidate(arg))

\* the tokens of the tech stacks: empty, registry technologies in several spellings,
\* an unmatched one, a token that holds two technologies
StackTokens ==
    { <<>>, <<"P","y","t","h","o","n">>, <<" ","S","Q","L">>, <<"C","o","b","o","l">>,
      <<" ","p","y","t","h","o","n","3"," ">>, <<"m","l"," ","s","q","l">> }

\* the number of comma-separated tokens of a tech stack
MaxTokens == 3

\* ",".join(tokens)
RECURSIVE Join(_)
Join(tokens) ==
    IF tokens = <<>> THEN <<>>
    ELSE IF Len(tokens) = 1 THEN tokens[1]
    ELSE tokens[1] \o <<",">> \o Join(Tail(tokens))

TechStacks == {Join(ts) : ts \in UNION {[1..n -> StackTokens] : n \in 0..MaxTokens}}

InitQuestions ==
    /\ pc = "generate_fallback_questions"
    /\ arg \in TechStacks
    /\ result = <<>>
    /\ candidate = EmptyCandidate /\ messages = <<>> /\ asked_tech_questions = FALSE
    /\ last_input = None /\ chat_input = <<>> /\ screen = "none"
    /\ exited = FALSE /\ uncaught = FALSE /\ scenario = OffScript

CallFallbackQuestions ==
    /\ pc = "generate_fallback_questions"
    /\ result' = generate_fallback_questions(arg, DefaultMaxQuestions)
    /\ pc' = "returned"
    /\ UNCHANGED <<candidate, messages, asked_tech_questions, last_input, chat_input,
                   screen, exited, uncaught, scenario, arg>>

NextQuestions == CallFallbackQuestions

SpecQuestions == InitQuestions /\ [][NextQuestions]_vars

\* the questions of the registry list of a technology
BankQuestions(key) == Range(BANK[CHOOSE n \in 1..Len(BANK) : BANK[n].key = key].questions)

\* C9: with the default limit, generate_fallback_questions returns at least 1 and at
\* most 5 questions, none of them empty, for every tech stack string.
C9_FallbackOneToFive ==
    pc = "returned" =>
        /\ Len(result) >= 1 /\ Len(result) <= DefaultMaxQuestions
        /\ \A i \in 1..Len(result) : result[i] # <<>>

\* C9, witness: the result for a stack with a repeated, an unmatched and a second
\* registry technology
C9_Witness ==
    /\ pc = "returned"
    /\ arg = Join(<<<<"C","o","b","o","l">>, <<"C","o","b","o","l">>, <<" ","S","Q","L">>>>)
    /\ Len(result) = DefaultMaxQuestions

\* C10: for a stack that names python and sql, the result has 1 to 5 questions, at least
\* one of the python list and at least one of the sql list.
C10_PythonAndSql ==
    pc = "returned" /\ Contains(Lower(arg), <<"p","y","t","h","o","n">>)
                    /\ Contains(Lower(arg), <<"s","q","l">>) =>
        /\ Len(result) >= 1 /\ Len(result) <= DefaultMaxQuestions
        /\ \E i \in 1..Len(result) : result[i] \in BankQuestions(<<"p","y","t","h","o","n">>)
        /\ \E i \in 1..Len(result) : result[i] \in BankQuestions(<<"s","q","l">>)

-----------------------------------------------------------------------------
(* The helpers of src/utils.py and generate_tech_questions of step1, each   *)
(* applied to the inputs of a bounded set.                                  *)

\* the texts the extractors and detect_exit are applied to: a prefix, a body (phone
\* numbers in several spellings, numbers with and without a unit, termination words
\* alone and among other words) and a suffix
HelperTexts ==
    LET prefixes == { <<>>,
              <<"+">>,
              <<"+","1"," ">>,
              <<"9","1","-">>,
              <<"x"," ">> }
        bodies == { <<"4","1","5","5","5","5","8","8","9","9">>,
              <<"4","1","5"," ","5","5","5"," ","8","8","9","9">>,
              <<"4","1","5","-","5","5","5","-","8","8","9","9">>,
              <<"4","1","5",".","5","5","5",".","8","8","9","9">>,
              <<"4","1","5","5","5","5","8","8","9">>,
              <<"5","5","5"," ","8","8","9","9">>,
              <<"1","2","3","4","5","6","7","8","9","0","1","2","3","4">>,
              <<"3"," ","y","r","s">>,
              <<"2",".","5"," ","y","e","a","r","s">>,
              <<"7">>,
              <<"n","o","n","e">>,
              <<"e","x","i","t">>,
              <<" ","B","y","e"," ">>,
              <<"g","o","o","d","b","y","e"," ","n","o","w">>,
              <<"t","h","e"," ","e","n","d">>,
              <<"E","n","d">>,
              <<"s","t","o","p">> }
        suffixes == { <<>>,
              <<" ","o","k">> }
    IN  {a \o b \o c : a \in prefixes, b \in bodies, c \in suffixes}

\* the reply texts generate_tech_questions is given: empty, blank, plain, numbered,
\* with blank lines, with lines of markers, hyphens and spaces only, more than 5 lines
TechReplyTexts ==
    { <<>>,
      <<" ">>,
      <<"O","k","."," ">>,
      <<"1",")"," ","W","h","y","?","\n","-"," ","-">>,
      <<"1","."," ","A","?","\n","2",")"," ","B","?","\n","\n"," ","3","."," ","C","."," ","d",")"," ","e">>,
      <<"-"," ","\n","-","-">>,
      <<"3",")"," ">>,
      <<"a","\n","b","\n","c","\n","d","\n","e","\n","f">>,
      <<"1",")"," ","2","."," ","x">>,
      <<"5"," ","x","."," ","y",")"," ","z">>,
      <<"-"," ","o","n","e","\n","-"," ","t","w","o"," ","-">> }

\* the tech stack and the outcome of the service call of one generate_tech_questions call
TechQuestionCalls ==
    {[tech_stack |-> ts, svc |-> svc] :
        ts \in {T_PythonSql, <<"C","o","b","o","l">>},
        svc \in {s \in ServiceOutcomes : s.kind # "content"}
                \cup {[kind |-> "content", text |-> t] : t \in TechReplyTexts}}

\* Python's True and False, as texts
Bool(b) == IF b THEN <<"True">> ELSE <<"False">>

InitHelpers ==
    /\ \/ pc \in {"extract_phone", "extract_experience", "detect_exit"} /\ arg \in HelperTexts
       \/ pc = "generate_tech_questions" /\ arg \in TechQuestionCalls
    /\ result = <<>>
    /\ candidate = EmptyCandidate /\ messages = <<>> /\ asked_tech_questions = FALSE
    /\ last_input = None /\ chat_input = <<>> /\ screen = "none"
    /\ exited = FALSE /\ uncaught = FALSE /\ scenario = OffScript

\* the call returns: pc records which function did
Returns(value) ==
    /\ result' = value
    /\ pc' = pc \o ".returned"
    /\ UNCHANGED <<candidate, messages, asked_tech_questions, last_input, chat_input,
                   screen, exited, uncaught, scenario, arg>>

CallExtractPhone == pc = "extract_phone" /\ Returns(extract_phone(arg))
CallExtractExperience == pc = "extract_experience" /\ Returns(extract_experience(arg))
CallDetectExit == pc = "detect_exit" /\ Returns(Bool(detect_exit(arg)))
CallGenerateTechQuestions ==
    pc = "generate_tech_questions" /\ Returns(generate_tech_questions(arg.tech_stack, arg.svc))

NextHelpers ==
    \/ CallExtractPhone
    \/ CallExtractExperience
    \/ CallDetectExit
    \/ CallGenerateTechQuestions

SpecHelpers == InitHelpers /\ [][NextHelpers]_vars

\* C11: for a text that holds a run of digits and separators (space, hyphen, dot) with
\* at least 10 digits in it, extract_phone returns a string of digits only, at least 10
\* long; for a text with fewer than 10 digits it returns None.
C11_PhoneNormalized ==
    pc = "extract_phone.returned" =>
        LET digits(i, j) == {k \in i..j : arg[k] \in Digits}
            phoneLike == \E i \in 1..Len(arg) : \E j \in i..Len(arg) :
                            /\ \A k \in i..j : arg[k] \in Digits \cup {" ", "-", "."}
                            /\ Cardinality(digits(i, j)) >= 10
        IN  /\ phoneLike =>
                /\ result # None
                /\ Len(result) >= 10
                /\ \A k \in 1..Len(result) : result[k] \in Digits
            /\ Cardinality(digits(1, Len(arg))) < 10 => result = None

\* C12: extract_experience returns the first number that is followed, directly or after
\* whitespace, by year(s) or yr(s) when the text has one; otherwise the first number of
\* the text; None when the text has no number.
C12_AnnotatedNumberFirst ==
    pc = "extract_experience.returned" =>
        LET low == Lower(arg)
            \* the last index of the number that starts at i
            numEnd(i) == LET ie == RunEnd(arg, i, Digits)
                         IN  IF ie + 2 <= Len(arg) /\ arg[ie + 1] = "." /\ arg[ie + 2] \in Digits
                             THEN RunEnd(arg, ie + 2, Digits) ELSE ie
            \* the numbers of the text start at a digit that continues no number
            starts == {i \in 1..Len(arg) :
                         /\ arg[i] \in Digits
                         /\ i > 1 => arg[i - 1] \notin Digits
                         /\ i > 2 => ~(arg[i - 1] = "." /\ arg[i - 2] \in Digits)}
            unitAt(k) == \/ k + 3 <= Len(arg) /\ SubSeq(low, k, k + 3) = <<"y","e","a","r">>
                         \/ k + 1 <= Len(arg) /\ SubSeq(low, k, k + 1) = <<"y","r">>
            annotated == {i \in starts :
                            LET k == RunEnd(arg, numEnd(i) + 1, Whitespace) + 1
                            IN  unitAt(k)}
            value(i) == ToFloat(SubSeq(arg, i, numEnd(i)))
        IN  result = IF annotated # {} THEN value(Min(annotated))
                     ELSE IF starts # {} THEN value(Min(starts))
                     ELSE None

\* C13: detect_exit is true exactly when the text is one of the six termination words,
\* in any letter case, with nothing but whitespace around it; a text that holds such a
\* word among other words, or inside another word, is not an exit.
C13_ExactExitWord ==
    pc = "detect_exit.returned" =>
        (result = Bool(TRUE)) <=>
            \E i \in 1..Len(arg) : \E j \in i..Len(arg) :
                /\ \A k \in 1..(i - 1) : arg[k] \in Whitespace
                /\ \A k \in (j + 1)..Len(arg) : arg[k] \in Whitespace
                /\ Lower(SubSeq(arg, i, j)) \in
                      { <<"e","x","i","t">>,
                        <<"q","u","i","t">>,
                        <<"s","t","o","p">>,
                        <<"b","y","e">>,
                        <<"g","o","o","d","b","y","e">>,
                        <<"e","n","d">> }

\* C13, witness: a text that holds a termination word among other words was tested
C13_Witness ==
    /\ pc = "detect_exit.returned"
    /\ arg = <<"g","o","o","d","b","y","e"," ","n","o","w">>
    /\ result = Bool(FALSE)

\* C18: for every outcome of the service call, generate_tech_questions returns 1 to 5
\* questions, none of them empty; they are those of the fallback bank exactly when the
\* call failed or the reply has no line that is not blank.
C18_TechQuestionsOneToFive ==
    pc = "generate_tech_questions.returned" =>
        LET failed == arg.svc.kind # "content"
            lines == IF failed THEN <<>> ELSE Split(arg.svc.text, "\n")
            noLine == \A n \in 1..Len(lines) : Strip(lines[n]) = <<>>
        IN  /\ Len(result) >= 1 /\ Len(result) <= 5
            /\ \A n \in 1..Len(result) : result[n] # <<>>
            /\ (result = generate_fallback_questions(arg.tech_stack, 5)) <=> (failed \/ noLine)

====
